---- MODULE Spec2Model ----
(***************************************************************************)
(* Model of the model-library view of Silicon Studio (ModelsInterface.tsx) *)
(* and of the App shell that mounts it (App.tsx), together with the remote *)
(* model service the view talks to.                                        *)
(*                                                                         *)
(* One step of the model is one task of the renderer's event loop: a user  *)
(* event, a timer callback or the delivery of a network response, with     *)
(* the React state updates it makes, the re-render and the effects that    *)
(* re-run because of them.  The remote service is opaque to the view: a    *)
(* request in flight may be answered at any time, with success or failure, *)
(* and a model list may hold any inventory.                                *)
(***************************************************************************)
EXTENDS Integers, Sequences, FiniteSets, TLC

\* Bound of the model: requests in flight at one time.
MaxPending == 2

\* The model ids of the catalogue, and the one a local directory registers.
ModelIds == {"a", "b"}
PathIds == {"b"}

\* A model as the service lists it: not listed, listed with downloaded=false
\* and downloading=false, listed with downloading=true, listed with
\* downloaded=true.
Status == {"absent", "idle", "downloading", "downloaded"}
NoModels == [i \in ModelIds |-> "absent"]

VARIABLES
  \* App.tsx
  backendReady, health, activeTab, hoveredTab,
  \* ModelsInterface.tsx, component state
  models, loading, downloading, error,
  showAddModal, customName, customPath, customUrl, modelToDelete,
  \* the poll effect: its cleanup closure and the intervals the browser holds
  cleanup, timers,
  \* the requests in flight and the last task that ran
  net, event

appVars == <<backendReady, health, activeTab, hoveredTab>>
formVars == <<showAddModal, customName, customPath, customUrl>>
pollVars == <<cleanup, timers>>
viewVars == <<models, loading, downloading, error, formVars, modelToDelete, pollVars>>
vars == <<appVars, viewVars, net, event>>

\* The last task of the event loop: what ran, the model id it was about, and
\* for a resolved getModels the list it carried.
Ev(op, id) == [op |-> op, id |-> id, data |-> NoModels]
EvData(op, data) == [op |-> op, id |-> "-", data |-> data]

\* App.tsx:16
displayedTab == IF hoveredTab # "none" THEN hoveredTab ELSE activeTab

\* App.tsx:47 and :150: the view exists once the backend is ready and the
\* displayed tab is the models tab.
Mounted == backendReady /\ displayedTab = "models"

\* model.downloaded, model.downloading of a record of the store
Downloaded(m, i) == m[i] = "downloaded"
Downloading(m, i) == m[i] = "downloading"
Listed(m) == {i \in ModelIds : m[i] # "absent"}

\* isDownloading with && in place of ||.
isDownloading_and(i) == i \in downloading /\ Downloading(models, i)

\* ModelsInterface.tsx:124
isDownloading(i) == i \in downloading \/ Downloading(models, i)

\* hasActiveDownloads without the Overlay term.
hasActiveDownloads_storeOnly(m, d) == \E i \in Listed(m) : Downloading(m, i)

\* ModelsInterface.tsx:34
hasActiveDownloads(m, d) == (\E i \in Listed(m) : Downloading(m, i)) \/ d # {}

\* The poll effect with downloading missing from its dependencies: it reads
\* the Overlay of the render it last ran in.
PollEffect_missingDep(m, d) ==
  LET cleared == IF cleanup THEN timers - 1 ELSE timers
  IN  /\ timers' = (IF hasActiveDownloads_storeOnly(m, d) \/ downloading # {} THEN cleared + 1 ELSE cleared)
      /\ cleanup' = (hasActiveDownloads_storeOnly(m, d) \/ downloading # {})

\* The poll effect returning no cleanup: an interval once set is never cleared.
PollEffect_noCleanup(m, d) ==
  /\ timers' = (IF hasActiveDownloads(m, d) THEN timers + 1 ELSE timers)
  /\ cleanup' = hasActiveDownloads(m, d)

\* ModelsInterface.tsx:33-42: the effect re-runs when models or downloading
\* changed: the cleanup of the previous run clears its interval, then a new
\* interval is set when a download is active.
PollEffect(m, d) ==
  LET cleared == IF cleanup THEN timers - 1 ELSE timers
  IN  /\ timers' = (IF hasActiveDownloads(m, d) THEN cleared + 1 ELSE cleared)
      /\ cleanup' = hasActiveDownloads(m, d)

\* A request handed to apiClient.engine: op, the model id (or path) it names,
\* for getModels whether fetchModels was called silent and which handler
\* awaits it.
Req(op, id, silent, cont) == [op |-> op, id |-> id, silent |-> silent, cont |-> cont]

Room == Len(net) < MaxPending

Without(s, k) == [j \in 1..(Len(s) - 1) |-> IF j < k THEN s[j] ELSE s[j + 1]]

----
\* A mount whose effect runs twice: two initial fetches.
Mount_doubleFetch ==
  /\ models' = NoModels
  /\ loading' = TRUE
  /\ downloading' = {}
  /\ error' = "none"
  /\ showAddModal' = FALSE
  /\ customName' = ""
  /\ customPath' = ""
  /\ customUrl' = ""
  /\ modelToDelete' = "none"
  /\ PollEffect(NoModels, {})
  /\ net' = net \o <<Req("getModels", "-", FALSE, "none"), Req("getModels", "-", FALSE, "none")>>

\* ModelsInterface.tsx:5-18, 60: a fresh component: initial state, then the
\* mount effect calls fetchModels() and the poll effect finds nothing active.
Mount ==
  /\ models' = NoModels
  /\ loading' = TRUE
  /\ downloading' = {}
  /\ error' = "none"
  /\ showAddModal' = FALSE
  /\ customName' = ""
  /\ customPath' = ""
  /\ customUrl' = ""
  /\ modelToDelete' = "none"
  /\ PollEffect(NoModels, {})
  /\ net' = Append(net, Req("getModels", "-", FALSE, "none"))

\* A teardown that runs no effect cleanup: the interval outlives the view.
Unmount_noCleanup ==
  /\ models' = NoModels
  /\ loading' = FALSE
  /\ downloading' = {}
  /\ error' = "none"
  /\ showAddModal' = FALSE
  /\ customName' = ""
  /\ customPath' = ""
  /\ customUrl' = ""
  /\ modelToDelete' = "none"
  /\ UNCHANGED pollVars
  /\ net' = <<>>

\* The component goes away: its state is dropped and the poll effect's
\* cleanup runs.  Its requests stay in flight, but their continuations only
\* call the setters of the dead instance, which React ignores: net holds the
\* requests of the mounted instance only.
Unmount ==
  /\ models' = NoModels
  /\ loading' = FALSE
  /\ downloading' = {}
  /\ error' = "none"
  /\ showAddModal' = FALSE
  /\ customName' = ""
  /\ customPath' = ""
  /\ customUrl' = ""
  /\ modelToDelete' = "none"
  /\ timers' = (IF cleanup THEN timers - 1 ELSE timers)
  /\ cleanup' = FALSE
  /\ net' = <<>>

\* App.tsx:47-63, 149-150: what a render of App does to the models view.
Rerender(was, is) ==
  IF was /\ ~is THEN Unmount
  ELSE IF ~was /\ is THEN Room /\ Mount
  ELSE UNCHANGED <<viewVars, net>>

Init ==
  /\ backendReady = FALSE
  /\ health = "inflight"
  /\ activeTab = "models"
  /\ hoveredTab = "none"
  /\ models = NoModels
  /\ loading = FALSE
  /\ downloading = {}
  /\ error = "none"
  /\ showAddModal = FALSE
  /\ customName = ""
  /\ customPath = ""
  /\ customUrl = ""
  /\ modelToDelete = "none"
  /\ cleanup = FALSE
  /\ timers = 0
  /\ net = <<>>
  /\ event = Ev("init", "-")

----
\* App.tsx:23-28: the health request answers ok.
HealthOk ==
  /\ health = "inflight"
  /\ health' = "done"
  /\ backendReady' = TRUE
  /\ UNCHANGED <<activeTab, hoveredTab>>
  /\ Rerender(Mounted, Mounted')
  /\ event' = Ev("healthOk", "-")

\* checkBackend without its response.ok test: any answer makes the backend
\* ready.
HealthNotOk_setsReady ==
  /\ health = "inflight"
  /\ health' = "stopped"
  /\ backendReady' = TRUE
  /\ UNCHANGED <<activeTab, hoveredTab>>
  /\ Rerender(Mounted, Mounted')
  /\ event' = Ev("healthNotOk", "-")

\* App.tsx:25-28: the health request answers, but not ok: nothing is set and
\* nothing is scheduled.
HealthNotOk ==
  /\ health = "inflight"
  /\ health' = "stopped"
  /\ event' = Ev("healthNotOk", "-")
  /\ UNCHANGED <<backendReady, activeTab, hoveredTab, viewVars, net>>

\* App.tsx:29-37: the health request throws: a retry is scheduled.
HealthThrow ==
  /\ health = "inflight"
  /\ health' = "retry"
  /\ event' = Ev("healthThrow", "-")
  /\ UNCHANGED <<backendReady, activeTab, hoveredTab, viewVars, net>>

\* App.tsx:36: the retry timer fires.
HealthRetry ==
  /\ health = "retry"
  /\ health' = "inflight"
  /\ event' = Ev("healthRetry", "-")
  /\ UNCHANGED <<backendReady, activeTab, hoveredTab, viewVars, net>>

\* App.tsx:82-99: a sidebar item is clicked.
SetActiveTab(t) ==
  /\ backendReady
  /\ t # activeTab
  /\ activeTab' = t
  /\ UNCHANGED <<backendReady, health, hoveredTab>>
  /\ Rerender(Mounted, Mounted')
  /\ event' = Ev("setActiveTab", t)

\* App.tsx:118-122: the pointer enters or leaves the locked Data Preparation item.
SetHoveredTab(h) ==
  /\ backendReady
  /\ h # hoveredTab
  /\ hoveredTab' = h
  /\ UNCHANGED <<backendReady, health, activeTab>>
  /\ Rerender(Mounted, Mounted')
  /\ event' = Ev("setHoveredTab", h)

----
\* fetchModels raising the loading flag whatever its silent argument.
fetchModels_alwaysLoading(silent, cont) ==
  /\ loading' = TRUE
  /\ net' = Append(net, Req("getModels", "-", silent, cont))

\* ModelsInterface.tsx:20-23: fetchModels(silent) up to its await.
fetchModels(silent, cont) ==
  /\ loading' = (IF silent THEN loading ELSE TRUE)
  /\ net' = Append(net, Req("getModels", "-", silent, cont))

\* ModelsInterface.tsx:37-39: the interval fires.
PollTick ==
  /\ Mounted
  /\ timers > 0
  /\ Room
  /\ fetchModels(TRUE, "none")
  /\ event' = Ev("pollTick", "-")
  /\ UNCHANGED <<appVars, models, downloading, error, formVars, modelToDelete, pollVars>>

\* The Download button without its disabled attribute.
DownloadEnabled_neverDisabled(i) ==
  /\ i \in Listed(models)
  /\ ~Downloaded(models, i)

\* ModelsInterface.tsx:150, 172-174: the Download button of model i is
\* rendered and enabled.
DownloadEnabled(i) ==
  /\ i \in Listed(models)
  /\ ~Downloaded(models, i)
  /\ ~isDownloading(i)

\* ModelsInterface.tsx:44-47: handleDownload(modelId) up to its await.
handleDownload(i) ==
  /\ downloading' = downloading \cup {i}
  /\ net' = Append(net, Req("downloadModel", i, TRUE, "none"))
  /\ PollEffect(models, downloading')
  /\ UNCHANGED <<models, loading, error, formVars, modelToDelete>>

\* ModelsInterface.tsx:173: click on the Download button of model i.
ClickDownload(i) ==
  /\ Mounted
  /\ DownloadEnabled(i)
  /\ Room
  /\ handleDownload(i)
  /\ event' = Ev("requestDownload", i)
  /\ UNCHANGED <<appVars>>

\* handleDownload leaving the refresh to the next poll tick.
DownloadAccepted_noRefresh(k) ==
  /\ k \in DOMAIN net
  /\ net[k].op = "downloadModel"
  /\ net' = Without(net, k)
  /\ event' = Ev("downloadAccepted", net[k].id)
  /\ UNCHANGED <<appVars, viewVars>>

\* handleDownload taking its id out of the Overlay as soon as the request
\* was accepted.
DownloadAccepted_removesId(k) ==
  /\ k \in DOMAIN net
  /\ net[k].op = "downloadModel"
  /\ net' = Append(Without(net, k), Req("getModels", "-", TRUE, "none"))
  /\ event' = Ev("downloadAccepted", net[k].id)
  /\ downloading' = downloading \ {net[k].id}
  /\ PollEffect(models, downloading')
  /\ UNCHANGED <<models, loading, error, formVars, modelToDelete>>
  /\ UNCHANGED appVars

\* ModelsInterface.tsx:47-49: downloadModel resolved: fetchModels(true).
DownloadAccepted(k) ==
  /\ k \in DOMAIN net
  /\ net[k].op = "downloadModel"
  /\ net' = Append(Without(net, k), Req("getModels", "-", TRUE, "none"))
  /\ event' = Ev("downloadAccepted", net[k].id)
  /\ UNCHANGED <<appVars, viewVars>>

\* A rollback that resets the Overlay instead of deleting one id.
rollback_clearAll(i) == {}

\* ModelsInterface.tsx:52-56: the rollback of the catch branch.
rollback(i) == downloading \ {i}

\* handleDownload reporting its failure through setError, like the other
\* handlers.
DownloadRejected_setsError(k) ==
  /\ k \in DOMAIN net
  /\ net[k].op = "downloadModel"
  /\ net' = Without(net, k)
  /\ event' = Ev("downloadRejected", net[k].id)
  /\ downloading' = rollback(net[k].id)
  /\ error' = "err"
  /\ PollEffect(models, downloading')
  /\ UNCHANGED <<models, loading, formVars, modelToDelete>>
  /\ UNCHANGED appVars

\* ModelsInterface.tsx:50-57: downloadModel rejected: alert, then rollback.
DownloadRejected(k) ==
  /\ k \in DOMAIN net
  /\ net[k].op = "downloadModel"
  /\ net' = Without(net, k)
  /\ event' = Ev("downloadRejected", net[k].id)
  /\ downloading' = rollback(net[k].id)
  /\ PollEffect(models, downloading')
  /\ UNCHANGED <<models, loading, error, formVars, modelToDelete>>
  /\ UNCHANGED appVars

\* ModelsInterface.tsx:67-68 and 81-85: what the handler awaiting
\* fetchModels() does once it returns; fetchModels never throws.
afterFetch(cont) ==
  /\ modelToDelete' = (IF cont = "delete" THEN "none" ELSE modelToDelete)
  /\ showAddModal' = (IF cont = "register" THEN FALSE ELSE showAddModal)
  /\ customName' = (IF cont = "register" THEN "" ELSE customName)
  /\ customPath' = (IF cont = "register" THEN "" ELSE customPath)
  /\ customUrl' = (IF cont = "register" THEN "" ELSE customUrl)

\* setModels merging the list into the previous inventory.
setModels_merge(data) == [i \in ModelIds |-> IF data[i] = "absent" THEN models[i] ELSE data[i]]

\* ModelsInterface.tsx:24: setModels(data)
setModels(data) == data

\* fetchModels dropping the response of a request that is not the newest one
\* in flight.
FetchResolved_latestOnly(k, data) ==
  /\ k \in DOMAIN net
  /\ net[k].op = "getModels"
  /\ net' = Without(net, k)
  /\ event' = EvData(IF net[k].silent THEN "silentRefresh" ELSE "refresh", data)
  /\ models' = (IF k = Len(net) THEN setModels(data) ELSE models)
  /\ loading' = (IF net[k].silent THEN loading ELSE FALSE)
  /\ PollEffect(models', downloading)
  /\ afterFetch(net[k].cont)
  /\ UNCHANGED <<downloading, error>>
  /\ UNCHANGED appVars

\* A refresh that drops the staged delete target when the new list no longer
\* holds it as installed.
FetchResolved_dropsStale(k, data) ==
  /\ k \in DOMAIN net
  /\ net[k].op = "getModels"
  /\ net' = Without(net, k)
  /\ event' = EvData(IF net[k].silent THEN "silentRefresh" ELSE "refresh", data)
  /\ models' = setModels(data)
  /\ loading' = (IF net[k].silent THEN loading ELSE FALSE)
  /\ PollEffect(models', downloading)
  /\ modelToDelete' = (IF net[k].cont = "delete" THEN "none"
                       ELSE IF modelToDelete # "none" /\ data[modelToDelete] # "downloaded"
                            THEN "none" ELSE modelToDelete)
  /\ showAddModal' = (IF net[k].cont = "register" THEN FALSE ELSE showAddModal)
  /\ customName' = (IF net[k].cont = "register" THEN "" ELSE customName)
  /\ customPath' = (IF net[k].cont = "register" THEN "" ELSE customPath)
  /\ customUrl' = (IF net[k].cont = "register" THEN "" ELSE customUrl)
  /\ UNCHANGED <<downloading, error>>
  /\ UNCHANGED appVars

\* ModelsInterface.tsx:23-24, 27-29: getModels resolved with the list data.
FetchResolved(k, data) ==
  /\ k \in DOMAIN net
  /\ net[k].op = "getModels"
  /\ net' = Without(net, k)
  /\ event' = EvData(IF net[k].silent THEN "silentRefresh" ELSE "refresh", data)
  /\ models' = setModels(data)
  /\ loading' = (IF net[k].silent THEN loading ELSE FALSE)
  /\ PollEffect(models', downloading)
  /\ afterFetch(net[k].cont)
  /\ UNCHANGED <<downloading, error>>
  /\ UNCHANGED appVars

\* fetchModels whose catch sets the error only when not silent.
FetchRejected_silentSwallow(k) ==
  /\ k \in DOMAIN net
  /\ net[k].op = "getModels"
  /\ net' = Without(net, k)
  /\ event' = Ev(IF net[k].silent THEN "silentRefreshFailed" ELSE "refreshFailed", "-")
  /\ error' = (IF net[k].silent THEN error ELSE "err")
  /\ loading' = (IF net[k].silent THEN loading ELSE FALSE)
  /\ afterFetch(net[k].cont)
  /\ UNCHANGED <<models, downloading, pollVars>>
  /\ UNCHANGED appVars

\* fetchModels whose catch empties the inventory, which re-runs the poll effect.
FetchRejected_clearsStore(k) ==
  /\ k \in DOMAIN net
  /\ net[k].op = "getModels"
  /\ net' = Without(net, k)
  /\ event' = Ev(IF net[k].silent THEN "silentRefreshFailed" ELSE "refreshFailed", "-")
  /\ error' = "err"
  /\ loading' = (IF net[k].silent THEN loading ELSE FALSE)
  /\ models' = NoModels
  /\ PollEffect(NoModels, downloading)
  /\ afterFetch(net[k].cont)
  /\ UNCHANGED downloading
  /\ UNCHANGED appVars

\* ModelsInterface.tsx:25-29: getModels rejected.
FetchRejected(k) ==
  /\ k \in DOMAIN net
  /\ net[k].op = "getModels"
  /\ net' = Without(net, k)
  /\ event' = Ev(IF net[k].silent THEN "silentRefreshFailed" ELSE "refreshFailed", "-")
  /\ error' = "err"
  /\ loading' = (IF net[k].silent THEN loading ELSE FALSE)
  /\ afterFetch(net[k].cont)
  /\ UNCHANGED <<models, downloading, pollVars>>
  /\ UNCHANGED appVars

----
\* A Delete Model button that sends the delete at once instead of staging it.
ConfirmDelete_deletesAtOnce(i) ==
  /\ Mounted
  /\ i \in Listed(models) /\ Downloaded(models, i)
  /\ Room
  /\ modelToDelete' = i
  /\ loading' = TRUE
  /\ net' = Append(net, Req("deleteModel", i, FALSE, "none"))
  /\ event' = Ev("confirmDelete", i)
  /\ UNCHANGED <<appVars, models, downloading, error, formVars, pollVars>>

\* ModelsInterface.tsx:161-163: the Delete Model button of an installed model.
ConfirmDelete(i) ==
  /\ Mounted
  /\ i \in Listed(models) /\ Downloaded(models, i)
  /\ modelToDelete' = i
  /\ event' = Ev("confirmDelete", i)
  /\ UNCHANGED <<appVars, models, loading, downloading, error, formVars, pollVars, net>>

\* ModelsInterface.tsx:210-212: Cancel in the confirmation modal.
CancelDelete ==
  /\ Mounted
  /\ modelToDelete # "none"
  /\ modelToDelete' = "none"
  /\ event' = Ev("cancelDelete", "-")
  /\ UNCHANGED <<appVars, models, loading, downloading, error, formVars, pollVars, net>>

\* ModelsInterface.tsx:62-66, 216-218: Delete in the confirmation modal:
\* handleDelete up to its first await.
CommitDelete ==
  /\ Mounted
  /\ modelToDelete # "none"
  /\ Room
  /\ loading' = TRUE
  /\ net' = Append(net, Req("deleteModel", modelToDelete, FALSE, "none"))
  /\ event' = Ev("commitDelete", modelToDelete)
  /\ UNCHANGED <<appVars, models, downloading, error, formVars, modelToDelete, pollVars>>

\* handleDelete dropping the deleted record from the store by itself before
\* it refreshes.
DeleteAccepted_prunesStore(k) ==
  /\ k \in DOMAIN net
  /\ net[k].op = "deleteModel"
  /\ net' = Append(Without(net, k), Req("getModels", "-", FALSE, "delete"))
  /\ loading' = TRUE
  /\ event' = Ev("deleteAccepted", net[k].id)
  /\ models' = [models EXCEPT ![net[k].id] = "absent"]
  /\ PollEffect(models', downloading)
  /\ UNCHANGED <<appVars, downloading, error, formVars, modelToDelete>>

\* ModelsInterface.tsx:66-67: deleteModel resolved: await fetchModels().
DeleteAccepted(k) ==
  /\ k \in DOMAIN net
  /\ net[k].op = "deleteModel"
  /\ net' = Append(Without(net, k), Req("getModels", "-", FALSE, "delete"))
  /\ loading' = TRUE
  /\ event' = Ev("deleteAccepted", net[k].id)
  /\ UNCHANGED <<appVars, models, downloading, error, formVars, modelToDelete, pollVars>>

\* handleDelete clearing the staged target in its finally block.
DeleteRejected_clearsTarget(k) ==
  /\ k \in DOMAIN net
  /\ net[k].op = "deleteModel"
  /\ net' = Without(net, k)
  /\ error' = "err"
  /\ loading' = FALSE
  /\ modelToDelete' = "none"
  /\ event' = Ev("deleteRejected", net[k].id)
  /\ UNCHANGED <<appVars, models, downloading, formVars, pollVars>>

\* handleDelete sending the delete again when it was rejected.
DeleteRejected_retries(k) ==
  /\ k \in DOMAIN net
  /\ net[k].op = "deleteModel"
  /\ net' = Append(Without(net, k), net[k])
  /\ error' = "err"
  /\ loading' = TRUE
  /\ event' = Ev("deleteRejected", net[k].id)
  /\ UNCHANGED <<appVars, models, downloading, formVars, modelToDelete, pollVars>>

\* ModelsInterface.tsx:69-73: deleteModel rejected.
DeleteRejected(k) ==
  /\ k \in DOMAIN net
  /\ net[k].op = "deleteModel"
  /\ net' = Without(net, k)
  /\ error' = "err"
  /\ loading' = FALSE
  /\ event' = Ev("deleteRejected", net[k].id)
  /\ UNCHANGED <<appVars, models, downloading, formVars, modelToDelete, pollVars>>

\* ModelsInterface.tsx:100-101: Add Foundation Model.
OpenAddModal ==
  /\ Mounted
  /\ ~showAddModal
  /\ showAddModal' = TRUE
  /\ event' = Ev("openAddModal", "-")
  /\ UNCHANGED <<appVars, models, loading, downloading, error, customName, customPath,
                 customUrl, modelToDelete, pollVars, net>>

\* ModelsInterface.tsx:285-286: Cancel in the registration dialog.
CloseAddModal ==
  /\ Mounted
  /\ showAddModal
  /\ showAddModal' = FALSE
  /\ event' = Ev("closeAddModal", "-")
  /\ UNCHANGED <<appVars, models, loading, downloading, error, customName, customPath,
                 customUrl, modelToDelete, pollVars, net>>

\* ModelsInterface.tsx:236-239: the name input of the dialog.
SetCustomName(v) ==
  /\ Mounted
  /\ showAddModal
  /\ v # customName
  /\ customName' = v
  /\ event' = Ev("setCustomName", v)
  /\ UNCHANGED <<appVars, models, loading, downloading, error, showAddModal, customPath,
                 customUrl, modelToDelete, pollVars, net>>

\* ModelsInterface.tsx:247-250: the reference URL input of the dialog.
SetCustomUrl(v) ==
  /\ Mounted
  /\ showAddModal
  /\ v # customUrl
  /\ customUrl' = v
  /\ event' = Ev("setCustomUrl", v)
  /\ UNCHANGED <<appVars, models, loading, downloading, error, showAddModal, customName,
                 customPath, modelToDelete, pollVars, net>>

\* ModelsInterface.tsx:267-271: the directory picker returned a path.
SelectDirectory(p) ==
  /\ Mounted
  /\ showAddModal
  /\ p # customPath
  /\ customPath' = p
  /\ event' = Ev("selectDirectory", p)
  /\ UNCHANGED <<appVars, models, loading, downloading, error, showAddModal, customName,
                 customUrl, modelToDelete, pollVars, net>>

\* ModelsInterface.tsx:291-293: Register Model is enabled.
RegisterEnabled == customName # "" /\ customPath # "" /\ ~loading

\* ModelsInterface.tsx:76-80: handleRegister up to its first await: it
\* returns at once when the name or the path is empty.
handleRegister ==
  IF customName = "" \/ customPath = ""
  THEN UNCHANGED <<loading, net>>
  ELSE /\ loading' = TRUE
       /\ net' = Append(net, Req("registerModel", customPath, FALSE, "none"))

\* A Register Model button that is never disabled over a handler that does
\* not validate.
ClickRegister_unvalidated ==
  /\ Mounted
  /\ showAddModal
  /\ Room
  /\ loading' = TRUE
  /\ net' = Append(net, Req("registerModel", customPath, FALSE, "none"))
  /\ event' = Ev("register", customPath)
  /\ UNCHANGED <<appVars, models, downloading, error, formVars, modelToDelete, pollVars>>

\* ModelsInterface.tsx:291-293: a click on Register Model: the enabled
\* button runs handleRegister, the disabled one dispatches nothing.
ClickRegister ==
  /\ Mounted
  /\ showAddModal
  /\ IF RegisterEnabled THEN Room /\ handleRegister ELSE UNCHANGED <<loading, net>>
  /\ event' = Ev(IF RegisterEnabled THEN "register" ELSE "registerBlocked", customPath)
  /\ UNCHANGED <<appVars, models, downloading, error, formVars, modelToDelete, pollVars>>

\* handleRegister dismissing the dialog and clearing its fields as soon as
\* registerModel resolved, before its refresh.
RegisterAccepted_dismissesFirst(k) ==
  /\ k \in DOMAIN net
  /\ net[k].op = "registerModel"
  /\ net' = Append(Without(net, k), Req("getModels", "-", FALSE, "none"))
  /\ loading' = TRUE
  /\ event' = Ev("registerAccepted", net[k].id)
  /\ afterFetch("register")
  /\ UNCHANGED <<appVars, models, downloading, error, modelToDelete, pollVars>>

\* ModelsInterface.tsx:80-81: registerModel resolved: await fetchModels().
RegisterAccepted(k) ==
  /\ k \in DOMAIN net
  /\ net[k].op = "registerModel"
  /\ net' = Append(Without(net, k), Req("getModels", "-", FALSE, "register"))
  /\ loading' = TRUE
  /\ event' = Ev("registerAccepted", net[k].id)
  /\ UNCHANGED <<appVars, models, downloading, error, formVars, modelToDelete, pollVars>>

\* handleRegister dismissing the dialog and clearing its fields in its
\* finally block.
RegisterRejected_dismisses(k) ==
  /\ k \in DOMAIN net
  /\ net[k].op = "registerModel"
  /\ net' = Without(net, k)
  /\ error' = "err"
  /\ loading' = FALSE
  /\ event' = Ev("registerRejected", net[k].id)
  /\ afterFetch("register")
  /\ UNCHANGED <<appVars, models, downloading, modelToDelete, pollVars>>

\* ModelsInterface.tsx:86-90: registerModel rejected.
RegisterRejected(k) ==
  /\ k \in DOMAIN net
  /\ net[k].op = "registerModel"
  /\ net' = Without(net, k)
  /\ error' = "err"
  /\ loading' = FALSE
  /\ event' = Ev("registerRejected", net[k].id)
  /\ UNCHANGED <<appVars, models, downloading, formVars, modelToDelete, pollVars>>

\* ModelsInterface.tsx:114: the error banner is dismissed.
DismissError ==
  /\ Mounted
  /\ error # "none"
  /\ error' = "none"
  /\ event' = Ev("dismissError", "-")
  /\ UNCHANGED <<appVars, models, loading, downloading, formVars, modelToDelete, pollVars, net>>

----
Next ==
  \/ HealthOk
  \/ HealthNotOk
  \/ HealthThrow
  \/ HealthRetry
  \/ \E t \in {"models", "engine", "chat"} : SetActiveTab(t)
  \/ \E h \in {"none", "studio"} : SetHoveredTab(h)
  \/ PollTick
  \/ \E i \in ModelIds : ClickDownload(i)
  \/ \E k \in 1..MaxPending : DownloadAccepted(k)
  \/ \E k \in 1..MaxPending : DownloadRejected(k)
  \/ \E k \in 1..MaxPending, data \in [ModelIds -> Status] : FetchResolved(k, data)
  \/ \E k \in 1..MaxPending : FetchRejected(k)
  \/ \E i \in ModelIds : ConfirmDelete(i)
  \/ CancelDelete
  \/ CommitDelete
  \/ \E k \in 1..MaxPending : DeleteAccepted(k)
  \/ \E k \in 1..MaxPending : DeleteRejected(k)
  \/ DismissError

Spec == Init /\ [][Next]_vars

\* The registration workflow, with the refreshes and the poller around it.
NextRegistration ==
  \/ HealthOk
  \/ HealthNotOk
  \/ HealthThrow
  \/ HealthRetry
  \/ \E t \in {"models", "engine", "chat"} : SetActiveTab(t)
  \/ \E h \in {"none", "studio"} : SetHoveredTab(h)
  \/ PollTick
  \/ \E k \in 1..MaxPending, data \in [ModelIds -> Status] : FetchResolved(k, data)
  \/ \E k \in 1..MaxPending : FetchRejected(k)
  \/ OpenAddModal
  \/ CloseAddModal
  \/ \E v \in {"", "n"} : SetCustomName(v)
  \/ \E v \in {"", "u"} : SetCustomUrl(v)
  \/ \E p \in PathIds : SelectDirectory(p)
  \/ ClickRegister
  \/ \E k \in 1..MaxPending : RegisterAccepted(k)
  \/ \E k \in 1..MaxPending : RegisterRejected(k)
  \/ DismissError

SpecRegistration == Init /\ [][NextRegistration]_vars

\* The lists getModels answers with where the three workflows run together:
\* model a over its life, model b installed or gone.
Inventory(a, b) == [i \in ModelIds |-> IF i = "a" THEN a ELSE b]
Inventories ==
  { NoModels,
    Inventory("idle", "downloaded"),
    Inventory("downloading", "downloaded"),
    Inventory("downloaded", "absent") }

\* Every handler of the view: download, poller, refresh, delete and register.
NextAll ==
  \/ HealthOk
  \/ HealthNotOk
  \/ HealthThrow
  \/ HealthRetry
  \/ \E t \in {"models", "engine", "chat"} : SetActiveTab(t)
  \/ \E h \in {"none", "studio"} : SetHoveredTab(h)
  \/ PollTick
  \/ \E i \in ModelIds : ClickDownload(i)
  \/ \E k \in 1..MaxPending : DownloadAccepted(k)
  \/ \E k \in 1..MaxPending : DownloadRejected(k)
  \/ \E k \in 1..MaxPending, data \in Inventories : FetchResolved(k, data)
  \/ \E k \in 1..MaxPending : FetchRejected(k)
  \/ \E i \in ModelIds : ConfirmDelete(i)
  \/ CancelDelete
  \/ CommitDelete
  \/ \E k \in 1..MaxPending : DeleteAccepted(k)
  \/ \E k \in 1..MaxPending : DeleteRejected(k)
  \/ OpenAddModal
  \/ CloseAddModal
  \/ \E v \in {"", "n"} : SetCustomName(v)
  \/ \E p \in PathIds : SelectDirectory(p)
  \/ ClickRegister
  \/ \E k \in 1..MaxPending : RegisterAccepted(k)
  \/ \E k \in 1..MaxPending : RegisterRejected(k)
  \/ DismissError

SpecAll == Init /\ [][NextAll]_vars

\* The timer fires while an interval is set and every request in flight is
\* answered, with success or with failure.
Deliver ==
  \E k \in 1..MaxPending :
    \/ DownloadAccepted(k)
    \/ DownloadRejected(k)
    \/ \E data \in [ModelIds -> Status] : FetchResolved(k, data)
    \/ FetchRejected(k)
    \/ DeleteAccepted(k)
    \/ DeleteRejected(k)

SpecFair == Spec /\ WF_vars(PollTick) /\ WF_vars(Deliver)

\* The oldest request in flight is answered, with success or with failure.
DeliverFirst ==
  \/ DownloadAccepted(1)
  \/ DownloadRejected(1)
  \/ \E data \in [ModelIds -> Status] : FetchResolved(1, data)
  \/ FetchRejected(1)
  \/ DeleteAccepted(1)
  \/ DeleteRejected(1)

\* The download workflow with the poller and the refreshes around it.
NextDownload ==
  \/ HealthOk
  \/ HealthNotOk
  \/ HealthThrow
  \/ HealthRetry
  \/ \E t \in {"models", "engine", "chat"} : SetActiveTab(t)
  \/ \E h \in {"none", "studio"} : SetHoveredTab(h)
  \/ PollTick
  \/ \E i \in ModelIds : ClickDownload(i)
  \/ \E k \in 1..MaxPending : DownloadAccepted(k)
  \/ \E k \in 1..MaxPending : DownloadRejected(k)
  \/ \E k \in 1..MaxPending, data \in [ModelIds -> Status] : FetchResolved(k, data)
  \/ \E k \in 1..MaxPending : FetchRejected(k)
  \/ DismissError

SpecDownload == Init /\ [][NextDownload]_vars

\* The interval fires while it is set and every request is answered in the
\* end.
SpecFairResponses == SpecDownload /\ WF_vars(PollTick) /\ WF_vars(DeliverFirst)

----
\* What the claims speak of.
Refreshed == {"silentRefresh", "refresh"}
RefreshFailed == {"silentRefreshFailed", "refreshFailed"}
DownloadPending(i) == \E k \in DOMAIN net : net[k].op = "downloadModel" /\ net[k].id = i
DownloadRequests(n, i) == Cardinality({k \in DOMAIN n : n[k].op = "downloadModel" /\ n[k].id = i})
Refreshes(n) == Cardinality({k \in DOMAIN n : n[k].op = "getModels"})

\* C1 as stated: in the mounted view a poll timer is scheduled iff some model
\* of the Record Store is effectively downloading, and none is scheduled when
\* the Overlay only holds ids absent from the store.
C1_TimerIffStoreModelDownloading ==
  Mounted => ((timers > 0) <=> (\E i \in Listed(models) : isDownloading(i)))

\* C1 as amended: in the mounted view a poll timer is scheduled iff the
\* Overlay is not empty or some model of the Record Store has its fetched
\* downloading flag set.
C1_TimerIffOverlayOrStore ==
  Mounted =>
    ((timers > 0) <=> (downloading # {} \/ \E i \in Listed(models) : models[i] = "downloading"))

\* C1 witness: the Overlay holds an id the store does not list, no listed
\* model is effectively downloading, and the timer is scheduled.
C1_Witness ==
  /\ Mounted
  /\ \E i \in downloading : models[i] = "absent"
  /\ ~\E i \in Listed(models) : isDownloading(i)
  /\ timers > 0

\* C2: polling terminates: once every requested download was accepted and a
\* successful refresh reports each requested model as downloaded and no model
\* as downloading, the poll timer is cancelled.
C2_PollingTerminates ==
  ( /\ Mounted
    /\ event.op \in Refreshed
    /\ downloading # {}
    /\ \A i \in downloading : ~DownloadPending(i) /\ models[i] = "downloaded"
    /\ \A i \in Listed(models) : models[i] # "downloading" )
  => timers = 0

\* C3: a downloadModel request for an id is only ever issued while that id is
\* not in the Overlay.
C3_NoSecondDownloadRequest ==
  [][\A i \in ModelIds :
       DownloadRequests(net', i) > DownloadRequests(net, i) => i \notin downloading]_vars

\* C3 witness: a model whose Download button is rendered and which the
\* Overlay alone marks as downloading, its request already accepted.
C3_Witness ==
  /\ Mounted
  /\ \E i \in downloading :
       /\ models[i] = "idle"
       /\ ~DownloadPending(i)
       /\ ~DownloadEnabled(i)

\* C4: a rejected downloadModel request for id X removes X from the Overlay
\* and nothing else, leaves the Record Store as it was and issues no request.
C4_RollbackExact ==
  [][event'.op = "downloadRejected" =>
       /\ downloading' = downloading \ {event'.id}
       /\ models' = models
       /\ Refreshes(net') = Refreshes(net)
       /\ Len(net') = Len(net) - 1]_vars

\* C4 witness: a request was just rejected while another id is in the
\* Overlay, and that id is still there.
C4_Witness ==
  /\ event.op = "downloadRejected"
  /\ event.id \notin downloading
  /\ downloading # {}
  /\ Listed(models) # {}

\* C5: once a successful refresh reports a model as downloaded or
\* downloading, its id, entered through an accepted request, is no longer in
\* the Overlay.
C5_OverlayEntryLeaves ==
  (Mounted /\ event.op \in Refreshed) =>
    \A i \in downloading :
      models[i] \in {"downloaded", "downloading"} => DownloadPending(i)

\* C6: if from some point on the Record Store, which successful refreshes
\* keep replacing, reports a model as not downloading, the model is again and
\* again not effectively downloading.
C6_ServerTruthNotShadowed ==
  \A i \in ModelIds :
    ((<>[](~Downloading(models, i))) /\ ([]<>(event.op \in Refreshed)))
      => []<>(~isDownloading(i))

\* C7: for every model of the Record Store the effective-downloading value
\* of the view is (id in the Overlay) or (fetched downloading flag).
C7_EffectiveDownloading ==
  \A i \in Listed(models) :
    isDownloading(i) <=> (i \in downloading \/ models[i] = "downloading")

\* C7 witness: one model is effectively downloading through the Overlay
\* alone and another through its fetched flag alone.
C7_Witness ==
  \E i, j \in Listed(models) :
    /\ i \in downloading /\ models[i] # "downloading"
    /\ j \notin downloading /\ models[j] = "downloading"

\* C8: after a successful refresh, silent or not, the Record Store is exactly
\* the fetched list.
C8_ReplaceAll ==
  (Mounted /\ event.op \in Refreshed) => models = event.data

\* C8 witness: a refresh completed whose list lacks a model that the store
\* held when its download was requested.
C8_Witness ==
  /\ Mounted
  /\ event.op \in Refreshed
  /\ \E i \in downloading : models[i] = "absent"
  /\ Listed(models) # {}

\* C9: a failed refresh, silent or not, leaves the Record Store as it was and
\* sets the error state.
C9_RefreshFailureKeepsStore ==
  [][event'.op \in RefreshFailed => (models' = models /\ error' # "none")]_vars

\* C9 witness: a silent refresh failed over a non-empty inventory and the
\* error is set.
C9_Witness ==
  /\ event.op = "silentRefreshFailed"
  /\ Listed(models) # {}
  /\ error # "none"

\* C10: requestDownload(a) on a model neither downloaded nor downloading puts
\* a in the Overlay and schedules the poll timer while the request is still
\* in flight, and the timer is scheduled after every refresh that reports a
\* requested model as downloading.
C10_PollerStartsAndStays ==
  /\ event.op = "requestDownload" =>
       /\ models[event.id] = "idle"
       /\ event.id \in downloading
       /\ DownloadPending(event.id)
       /\ timers > 0
  /\ (Mounted /\ event.op \in Refreshed) =>
       \A i \in downloading : models[i] = "downloading" => (isDownloading(i) /\ timers > 0)

\* C10 witness: a refresh just reported a requested model as downloading and
\* the timer is scheduled.
C10_Witness ==
  /\ event.op \in Refreshed
  /\ \E i \in downloading : models[i] = "downloading" /\ ~DownloadPending(i)
  /\ timers > 0

\* C11: at most one poll timer is outstanding in every reachable state: the
\* intervals the browser holds are exactly the one of the live cleanup closure,
\* none is held for a view that is not mounted, and a tick only ever comes
\* from that one interval.
C11_AtMostOneTimer ==
  /\ timers \in {0, 1}
  /\ (timers = 1) <=> cleanup
  /\ ~Mounted => timers = 0
  /\ event.op = "pollTick" => (timers = 1 /\ cleanup)

\* C11 witness: the effect just re-ran with an interval already set (a second
\* download was requested while the first kept the poller running) and one
\* interval is held.
C11_Witness ==
  /\ event.op = "requestDownload"
  /\ downloading = ModelIds
  /\ timers = 1

\* The tasks of a silent refresh: its start by a poll tick or by an accepted
\* download request, and its completion.
SilentRefreshTask == {"pollTick", "downloadAccepted", "silentRefresh", "silentRefreshFailed"}

\* C12: a silent refresh leaves the loading flag as it was, when it starts
\* (poll tick, accepted download request) and when it completes, with success
\* or with failure.
C12_SilentKeepsLoading ==
  [][event'.op \in SilentRefreshTask => loading' = loading]_vars

\* C12 witness: a silent refresh completed while a delete request kept the
\* loading flag raised, and the flag is still raised.
C12_Witness ==
  /\ event.op \in {"silentRefresh", "silentRefreshFailed"}
  /\ loading
  /\ \E k \in DOMAIN net : net[k].op = "deleteModel"

\* C13: a failed silent refresh leaves the Record Store and the poll timer as
\* they were; while the polling condition holds the interval is still set and
\* the view is mounted, so that its next tick is issued.
C13_FailedTickKeepsPolling ==
  [][event'.op = "silentRefreshFailed" =>
       /\ models' = models
       /\ pollVars' = pollVars
       /\ hasActiveDownloads(models', downloading') => (Mounted' /\ timers' = 1)]_vars

\* C13 witness: a silent refresh failed while a listed model was reported as
\* downloading; the store still reports it, the interval is set and the next
\* tick can fire.
C13_Witness ==
  /\ event.op = "silentRefreshFailed"
  /\ \E i \in ModelIds : Downloading(models, i)
  /\ timers = 1
  /\ ENABLED PollTick

\* C14: within the life of one view instance the Overlay changes only in a
\* download request, by the id added when it is requested or by the id
\* removed when it is rejected, and the Record Store changes only when a
\* refresh completes successfully: the delete workflow, the register
\* workflow, a failed refresh and the poll tick write neither.
C14_WriteOwnership ==
  [][(Mounted /\ Mounted') =>
       /\ downloading' # downloading =>
            \/ event'.op = "requestDownload" /\ downloading' = downloading \cup {event'.id}
            \/ event'.op = "downloadRejected" /\ downloading' = downloading \ {event'.id}
       /\ models' # models => event'.op \in Refreshed]_vars

\* C14 witness: the register workflow and the delete workflow have both
\* acted over a non-empty Overlay and a non-empty store.
C14_Witness ==
  /\ event.op = "registerAccepted"
  /\ \E k \in DOMAIN net : net[k].op = "deleteModel"
  /\ downloading # {}
  /\ Listed(models) # {}

\* C15: while the downloadModel request for an id is in flight the id is in
\* the Overlay; right after the request was accepted the id is still in the
\* Overlay and the newest request in flight is the silent refresh the
\* success path issued.
C15_DownloadOrdering ==
  /\ \A i \in ModelIds : DownloadPending(i) => i \in downloading
  /\ event.op = "downloadAccepted" =>
       /\ event.id \in downloading
       /\ net # <<>>
       /\ net[Len(net)] = Req("getModels", "-", TRUE, "none")

\* C15 witness: a download request was just accepted, no other request is
\* in flight than the refresh it issued, and its id is in the Overlay.
C15_Witness ==
  /\ event.op = "downloadAccepted"
  /\ downloading = {event.id}
  /\ net = <<Req("getModels", "-", TRUE, "none")>>

\* C16: refreshes in flight together are not sequenced: whichever of them
\* completes, the one requested first or the one requested last, the Record
\* Store holds its list once it has completed, so the response that completes
\* last is the one the store ends up with.
C16_LastCompletedWins ==
  [][\A k \in DOMAIN net :
       ( /\ Refreshes(net) >= 2
         /\ net[k].op = "getModels"
         /\ net' = Without(net, k)
         /\ event'.op \in Refreshed )
       => models' = event'.data]_vars

\* C16 witness: of two refreshes that were in flight together one has just
\* completed, the store holds its non-empty list, and the other is still to
\* complete.
C16_Witness ==
  /\ event.op \in Refreshed
  /\ Refreshes(net) >= 1
  /\ models = event.data
  /\ Listed(models) # {}

\* C17: the poll timer is cancelled by the step that makes the polling
\* condition false and by the step that tears the view down, and a tick is
\* only issued by a mounted view whose polling condition holds; a silent
\* refresh in flight when the timer was cancelled still completes in the
\* mounted view, and the Record Store then holds its list.
C17_Cancellation ==
  [][/\ ~Mounted' => timers' = 0
     /\ (Mounted' /\ ~hasActiveDownloads(models', downloading')) => timers' = 0
     /\ event'.op = "pollTick" =>
          (Mounted /\ timers = 1 /\ hasActiveDownloads(models, downloading))
     /\ (timers = 0 /\ event'.op = "silentRefresh") =>
          (Mounted' /\ models' = event'.data)]_vars

\* C17 witness: a rejected download request has just emptied the Overlay,
\* which cancelled the timer, while a silent refresh issued by an earlier
\* tick is still in flight in the mounted view.
C17_Witness ==
  /\ event.op = "downloadRejected"
  /\ Mounted
  /\ timers = 0
  /\ \E k \in DOMAIN net : net[k].op = "getModels" /\ net[k].silent

\* C18: a click on Register Model while the name or the path is empty issues
\* no request, neither registerModel nor a refresh, leaves the loading flag as
\* it was and leaves the dialog open with its fields as they were.
C18_RegisterValidation ==
  [][(event'.op \in {"register", "registerBlocked"} /\ (customName = "" \/ customPath = "")) =>
       /\ net' = net
       /\ loading' = loading
       /\ formVars' = formVars
       /\ showAddModal']_vars

\* C18 witness: Register Model was clicked with a name and no path, with
\* nothing loading and nothing in flight: nothing was sent and the dialog is
\* open with the name still entered.
C18_Witness ==
  /\ event.op = "registerBlocked"
  /\ showAddModal
  /\ customName = "n"
  /\ customPath = ""
  /\ ~loading
  /\ net = <<>>

\* C19: a rejected registerModel request leaves the dialog and the entered
\* name, path and reference URL as they were, sets the error state, issues
\* no refresh and leaves the loading flag false.
C19_RegisterFailure ==
  [][event'.op = "registerRejected" =>
       /\ formVars' = formVars
       /\ error' = "err"
       /\ Refreshes(net') = Refreshes(net)
       /\ Len(net') = Len(net) - 1
       /\ ~loading']_vars

\* C19 witness: a registerModel request was just rejected: the dialog is
\* open with the name, the path and the reference URL that were entered, the
\* error is set, nothing is in flight and nothing is loading.
C19_Witness ==
  /\ event.op = "registerRejected"
  /\ showAddModal
  /\ customName = "n"
  /\ customPath = "b"
  /\ customUrl = "u"
  /\ error = "err"
  /\ net = <<>>
  /\ ~loading

\* A register workflow is under way: its registerModel request or the
\* refresh it awaits is in flight.
RegisterRefresh == Req("getModels", "-", FALSE, "register")
RegisterPending ==
  \E k \in DOMAIN net : net[k].op = "registerModel" \/ net[k] = RegisterRefresh

\* C20 as stated: right after an accepted registerModel request its non-silent
\* refresh is in flight, and the dialog is never dismissed while the register
\* request or that refresh is pending.
C20_NeverDismissedWhilePending ==
  /\ event.op = "registerAccepted" => (net # <<>> /\ net[Len(net)] = RegisterRefresh)
  /\ (Mounted /\ RegisterPending) => showAddModal

\* C20 as amended: an accepted registerModel request issues a non-silent
\* refresh and leaves the dialog and its fields alone; in the mounted view the
\* dialog is dismissed only by its Cancel button or by the completion, with
\* success or with failure, of the refresh a register workflow awaits, which
\* also clears the fields.
C20_RegisterSuccessOrdering ==
  [][/\ event'.op = "registerAccepted" =>
          /\ net' # <<>>
          /\ net'[Len(net')] = RegisterRefresh
          /\ formVars' = formVars
     /\ (Mounted' /\ showAddModal /\ ~showAddModal') =>
          \/ event'.op = "closeAddModal"
          \/ /\ event'.op \in {"refresh", "refreshFailed"}
             /\ \E k \in DOMAIN net : net[k] = RegisterRefresh /\ net' = Without(net, k)
             /\ customName' = ""
             /\ customPath' = ""
             /\ customUrl' = ""]_vars

\* C20 witness: a registerModel request was just accepted: its refresh is
\* the only request in flight and the dialog is open with the entered fields.
C20_Witness ==
  /\ event.op = "registerAccepted"
  /\ net = <<RegisterRefresh>>
  /\ showAddModal
  /\ customName = "n"
  /\ customPath = "b"
  /\ loading

DeleteRequests(n) == Cardinality({k \in DOMAIN n : n[k].op = "deleteModel"})

\* C21: confirmDelete stages its model and nothing else: the requests in
\* flight, the Record Store, the Overlay, the loading flag and the error state
\* are as they were; with no staged target no step commits a delete or adds a
\* deleteModel request.
C21_ConfirmOnlyStages ==
  [][/\ event'.op = "confirmDelete" =>
          /\ modelToDelete' = event'.id
          /\ net' = net
          /\ models' = models
          /\ downloading' = downloading
          /\ loading' = loading
          /\ error' = error
     /\ modelToDelete = "none" =>
          /\ DeleteRequests(net') <= DeleteRequests(net)
          /\ event'.op # "commitDelete"]_vars

\* C21 witness: a model was just staged over a non-empty Overlay, a set error
\* and a request in flight, and no deleteModel request exists.
C21_Witness ==
  /\ event.op = "confirmDelete"
  /\ modelToDelete = event.id
  /\ downloading # {}
  /\ error = "err"
  /\ net # <<>>
  /\ DeleteRequests(net) = 0

\* C22: a rejected deleteModel request leaves the staged target and the
\* Record Store as they were, sets the error state, issues no refresh and
\* leaves the loading flag false.
C22_DeleteFailure ==
  [][event'.op = "deleteRejected" =>
       /\ modelToDelete' = modelToDelete
       /\ models' = models
       /\ error' = "err"
       /\ Refreshes(net') = Refreshes(net)
       /\ Len(net') = Len(net) - 1
       /\ ~loading']_vars

\* C22 witness: the delete of the staged model was just rejected: the model
\* is still staged and still installed in the store, the error is set,
\* nothing is in flight and nothing is loading.
C22_Witness ==
  /\ event.op = "deleteRejected"
  /\ modelToDelete = event.id
  /\ models[event.id] = "downloaded"
  /\ error = "err"
  /\ net = <<>>
  /\ ~loading

\* The refresh handleDelete awaits after an accepted delete.
DeleteRefresh == Req("getModels", "-", FALSE, "delete")

\* C23: an accepted deleteModel request is followed at once by a non-silent
\* refresh with the target still staged, and whenever the delete workflow
\* clears the staged target a refresh has just succeeded and the Record Store
\* holds the list it fetched after the delete.
C23_DeleteSuccess ==
  [][/\ event'.op = "deleteAccepted" =>
          /\ net' # <<>>
          /\ net'[Len(net')] = DeleteRefresh
          /\ modelToDelete' = modelToDelete
     /\ \A k \in DOMAIN net :
          ( /\ Mounted'
            /\ net[k] = DeleteRefresh
            /\ net' = Without(net, k)
            /\ modelToDelete # "none"
            /\ modelToDelete' = "none" )
          => (event'.op = "refresh" /\ models' = event'.data)]_vars

\* C24 as stated: right after a rejected download request the error state is
\* set, the id is not in the Overlay, and the rejection left the inventory
\* as it was.
C24_RejectionSetsErrorState ==
  event.op = "downloadRejected" => (error # "none" /\ event.id \notin downloading)

\* C24 as amended: a rejected download request, which is reported by a
\* blocking alert, leaves the error state and the Record Store as they were
\* and removes its id from the Overlay.
C24_RejectionKeepsErrorState ==
  [][event'.op = "downloadRejected" =>
       /\ error' = error
       /\ models' = models
       /\ event'.id \notin downloading']_vars

\* C24 witness: a download request was just rejected over a non-empty
\* inventory: no error is set and the id is out of the Overlay.
C24_Witness ==
  /\ event.op = "downloadRejected"
  /\ error = "none"
  /\ event.id \notin downloading
  /\ models[event.id] = "idle"

\* The user action that sends each kind of state-changing request, and the
\* tasks that call fetchModels: the poll tick and the mount of the view at
\* once, a workflow when its request was accepted.
UserAction == [downloadModel |-> "requestDownload", deleteModel |-> "commitDelete",
               registerModel |-> "register"]
RequestRejected == {"downloadRejected", "deleteRejected", "registerRejected"}
RequestAccepted == {"downloadAccepted", "deleteAccepted", "registerAccepted"}
RefreshStarter == {"pollTick", "healthOk", "setActiveTab", "setHoveredTab"}

\* C25: a step sends at most one request; a download, delete or register
\* request is only sent by the step of its user action, and a refresh only by
\* a poll tick, by the mount of the view or in place of the accepted request
\* of a workflow; every other step, the one of a rejected request or of a
\* failed refresh included, sends nothing.
C25_NoAutomaticRetry ==
  [][LET r == net'[Len(net')]
     IN  /\ Len(net') > Len(net) =>
              /\ net' = Append(net, r)
              /\ IF r.op = "getModels"
                 THEN event'.op \in RefreshStarter
                 ELSE event'.op = UserAction[r.op]
         /\ (Len(net') = Len(net) /\ net' # net) =>
              /\ r.op = "getModels"
              /\ event'.op \in RequestAccepted
              /\ \E k \in DOMAIN net : net' = Append(Without(net, k), r)
         /\ Len(net') < Len(net) =>
              (net' = <<>> \/ \E k \in DOMAIN net : net' = Without(net, k))
         /\ event'.op \in (RequestRejected \cup RefreshFailed) =>
              Len(net') = Len(net) - 1]_vars

\* C25 witness: a delete request was just rejected with no download active:
\* nothing is in flight and no poll timer is set, so that nothing is sent
\* again until the user acts.
C25_Witness ==
  /\ event.op = "deleteRejected"
  /\ modelToDelete = event.id
  /\ net = <<>>
  /\ timers = 0

\* C26: while the backend is not ready a health check is in flight or a
\* retry is scheduled.
C26_HealthPollingContinues ==
  ~backendReady => health \in {"inflight", "retry"}

\* C27: the backend is ready exactly when a health check has succeeded and it
\* stays ready; before that the models view is not mounted and no request of
\* the view is in flight, and no step sends one.
C27_NoRequestBeforeReady ==
  [][/\ backendReady => backendReady'
     /\ backendReady' <=> (health' = "done")
     /\ ~backendReady' => (~Mounted' /\ net' = <<>>)
     /\ Len(net') > Len(net) => (Mounted' /\ health' = "done")]_vars

\* C27 witness: the health check has just succeeded: the view is mounted
\* and its first request, the initial list, is in flight.
C27_Witness ==
  /\ event.op = "healthOk"
  /\ backendReady
  /\ Mounted
  /\ net = <<Req("getModels", "-", FALSE, "none")>>
  /\ loading

\* C28: in the mounted view a staged delete target is only changed by the
\* user staging another model, and only cleared by Cancel or by the
\* completion of the refresh that an accepted delete awaits: no other
\* refresh, no poll tick, no download and no register step touches it.
C28_StagedTargetOwnership ==
  [][(Mounted' /\ modelToDelete # "none" /\ modelToDelete' # modelToDelete) =>
       \/ event'.op = "confirmDelete" /\ modelToDelete' = event'.id
       \/ event'.op = "cancelDelete" /\ modelToDelete' = "none"
       \/ /\ event'.op \in {"refresh", "refreshFailed"}
          /\ modelToDelete' = "none"
          /\ \E k \in DOMAIN net : net[k] = DeleteRefresh /\ net' = Without(net, k)]_vars

\* C28 witness: a silent refresh has just removed the staged model from the
\* Record Store while no delete was committed, and the model is still staged.
C28_Witness ==
  /\ event.op = "silentRefresh"
  /\ modelToDelete # "none"
  /\ models[modelToDelete] = "absent"
  /\ DeleteRequests(net) = 0
  /\ ~\E k \in DOMAIN net : net[k] = DeleteRefresh

\* C29: at most one deleteModel request for a model is in flight at a time.
C29_OneDeleteInFlight ==
  \A i \in ModelIds :
    Cardinality({k \in DOMAIN net : net[k].op = "deleteModel" /\ net[k].id = i}) <= 1

\* A non-silent operation of the view is in flight: a refresh that was not
\* called silent, a delete or a register.
NonSilentPending == \E k \in DOMAIN net : ~net[k].silent

\* C30: in the mounted view the loading flag is true exactly when a
\* non-silent operation is in flight.
C30_LoadingTracksPending ==
  Mounted => (loading <=> NonSilentPending)

\* C31: if the download request for a model was accepted and the view stays
\* mounted from then on, if from some point on every successful refresh
\* reports the model as downloaded and no refresh fails, then from some point
\* on the Record Store shows the model as downloaded.
C31_EventualReconciliation ==
  \A i \in ModelIds :
    ( /\ <>((event.op = "downloadAccepted" /\ event.id = i) /\ []Mounted)
      /\ <>[](event.op \in Refreshed => event.data[i] = "downloaded")
      /\ <>[](event.op \notin RefreshFailed) )
    => <>[](Mounted /\ models[i] = "downloaded")

\* C31 witness: the download of a model was accepted and a later refresh,
\* issued while the poller was running, has put the model into the Record
\* Store as downloaded.
C31_Witness ==
  /\ Mounted
  /\ event.op = "silentRefresh"
  /\ \E i \in downloading :
       /\ ~DownloadPending(i)
       /\ event.data[i] = "downloaded"
       /\ models[i] = "downloaded"
  /\ timers = 1

\* The tasks that can mount the view: the first successful health check, a
\* click on the Models item, the pointer leaving the locked item.
MountEvent == {"healthOk", "setActiveTab", "setHoveredTab"}

\* C32: a view that is not mounted holds no Overlay and no request; a view
\* that was just mounted, for the first time or again, has an empty Overlay,
\* an empty store, no poll timer and exactly one request in flight, its
\* non-silent initial refresh; and while the Overlay is empty a model is
\* effectively downloading iff its fetched flag says so and the poll timer is
\* set iff some fetched flag says so.
C32_OverlayDoesNotSurviveTeardown ==
  /\ ~Mounted => (downloading = {} /\ net = <<>> /\ timers = 0)
  /\ (Mounted /\ event.op \in MountEvent) =>
       /\ downloading = {}
       /\ models = NoModels
       /\ timers = 0
       /\ loading
       /\ net = <<Req("getModels", "-", FALSE, "none")>>
  /\ (Mounted /\ downloading = {}) =>
       /\ \A i \in Listed(models) : isDownloading(i) <=> Downloading(models, i)
       /\ (timers = 1) <=> (\E i \in ModelIds : Downloading(models, i))

\* C32 witness: the pointer has just left the locked item, which mounts the
\* view again after the hover preview tore it down: the Overlay is empty
\* and the initial refresh is the one request in flight.
C32_Witness ==
  /\ event.op = "setHoveredTab"
  /\ Mounted
  /\ downloading = {}
  /\ Refreshes(net) = 1
  /\ ~net[1].silent

====
